---- MODULE Spec2Model ----
(***************************************************************************)
(* Quotation builder (src/script.js): the line-item store `products`, the  *)
(* view-mode flag `isSummaryMode`, and the page elements the handlers      *)
(* write (table body, totals, price header, footer span, form fields).     *)
(*                                                                         *)
(* Representation.                                                         *)
(*  - A text is a sequence of symbols.  " " is whitespace, "0".."9", "+",  *)
(*    "-", "." are the characters the number parsers look at, "Infinity"   *)
(*    stands for that run of eight letters, every other symbol is a run of *)
(*    other characters.  The alphabet holds no exponent marker.            *)
(*  - A JavaScript number is a record [k, v, exact]: k = "nan", k = "inf"  *)
(*    (v the sign) or k = "fin" with v the value in ticks of 1/400 (so     *)
(*    that eighths, hundredths and 18% of an eighth are whole ticks).      *)
(*    exact says that the binary64 value is this rational exactly; a value *)
(*    that is not exact differs from it by far less than a tick, because   *)
(*    every amount of the model is below 2^31 ticks.  Such a value         *)
(*    formats like the rational except on a half-cent tie, where the       *)
(*    binary64 error decides: both neighbours are outcomes.                *)
(*  - Date.now() is `now`, in milliseconds since the script started.       *)
(*  - The fields productName, unitPrice and quantity are the user's: what  *)
(*    they hold when Add is clicked is the input of addProduct, and        *)
(*    lastCall.cleared records whether the handler emptied them.           *)
(*  - saveClientInfo (src/script.js:27-35) writes three display fields     *)
(*    that no other handler reads; it is not part of this model.           *)
(***************************************************************************)
EXTENDS Integers, Sequences, FiniteSets

VARIABLES
  products,          \* let products (script.js:4)
  isSummaryMode,     \* let isSummaryMode (script.js:9)
  now,               \* Date.now(), ms since the script started
  tableRows,         \* rows of el('quotationTableBody')
  subTotal,          \* el('subTotal').textContent
  vatAmount,         \* el('vatAmount').textContent
  grandTotal,        \* el('grandTotal').textContent
  headerPrice,       \* el('headerPrice').classList
  footerColspan,     \* colspan of '#app table tfoot td:first-child'
  summaryButton,     \* el('summaryButton').textContent
  adds,              \* number of items pushed by addProduct so far
  lastCall           \* the handler that ran last, with what it observed

vars == <<products, isSummaryMode, now, tableRows, subTotal, vatAmount, grandTotal, headerPrice,
          footerColspan, summaryButton, adds, lastCall>>

(***************************************************************************)
(* Bounds of the model.                                                    *)
(***************************************************************************)
MaxClock == 1
MaxAdds == 1

(***************************************************************************)
(* Texts.                                                                  *)
(***************************************************************************)
IsSpace(c) == c = " "

RECURSIVE TrimStart(_)
TrimStart(s) ==
  IF s # <<>> /\ IsSpace(Head(s)) THEN TrimStart(Tail(s)) ELSE s

RECURSIVE TrimEnd(_)
TrimEnd(s) ==
  IF s # <<>> /\ IsSpace(s[Len(s)]) THEN TrimEnd(SubSeq(s, 1, Len(s) - 1)) ELSE s

\* trimStart in place of trim
TrimLeadingOnly(s) == TrimStart(s)

\* String.prototype.trim
Trim(s) == TrimEnd(TrimStart(s))

DigitChars == <<"0", "1", "2", "3", "4", "5", "6", "7", "8", "9">>

IsDigit(c) == \E i \in 1..10 : DigitChars[i] = c

DigitVal(c) == (CHOOSE i \in 1..10 : DigitChars[i] = c) - 1

\* the longest prefix of s made of digits
RECURSIVE DigitPrefix(_)
DigitPrefix(s) ==
  IF s # <<>> /\ IsDigit(Head(s)) THEN <<Head(s)>> \o DigitPrefix(Tail(s)) ELSE <<>>

\* the value of a digit sequence, most significant digit first
RECURSIVE DigitsValue(_)
DigitsValue(d) ==
  IF d = <<>> THEN 0 ELSE 10 * DigitsValue(SubSeq(d, 1, Len(d) - 1)) + DigitVal(d[Len(d)])

RECURSIVE Pow10(_)
Pow10(k) == IF k = 0 THEN 1 ELSE 10 * Pow10(k - 1)

\* Number -> String of a non-negative integer (template literal ${n})
RECURSIVE IntToText(_)
IntToText(n) ==
  IF n < 10 THEN <<DigitChars[n + 1]>>
  ELSE IntToText(n \div 10) \o <<DigitChars[(n % 10) + 1]>>

(***************************************************************************)
(* Numbers.                                                                *)
(***************************************************************************)
\* 16 * 25 ticks: sixteenths and hundredths are whole ticks
TicksPerUnit == 16 * 25

NaN == [k |-> "nan", v |-> 0, exact |-> TRUE]
Infinity(sign) == [k |-> "inf", v |-> sign, exact |-> TRUE]
\* a binary64 value holds a rational exactly iff the rational is dyadic:
\* t/400 = t/(16*25) is dyadic iff 25 divides t
Fin(t) == [k |-> "fin", v |-> t, exact |-> (t % 25 = 0)]
Approx(t) == [k |-> "fin", v |-> t, exact |-> FALSE]
Whole(n) == Fin(n * TicksPerUnit)

IsNaN(x) == x.k = "nan"
IsFiniteNum(x) == x.k = "fin"
IsIntegerNum(x) == x.k = "fin" /\ x.v % TicksPerUnit = 0
\* x <= 0 and x > 0 (both false of NaN)
LeqZero(x) == (x.k = "fin" /\ x.v <= 0) \/ (x.k = "inf" /\ x.v < 0)
GtZero(x) == (x.k = "fin" /\ x.v > 0) \/ (x.k = "inf" /\ x.v > 0)

Sign(x) == IF x.v > 0 THEN 1 ELSE IF x.v < 0 THEN -1 ELSE 0

\* a + b
Plus(a, b) ==
  IF IsNaN(a) \/ IsNaN(b) THEN NaN
  ELSE IF a.k = "inf" /\ b.k = "inf"
       THEN (IF a.v = b.v THEN a ELSE NaN)
  ELSE IF a.k = "inf" THEN a
  ELSE IF b.k = "inf" THEN b
  ELSE [k |-> "fin", v |-> a.v + b.v, exact |-> a.exact /\ b.exact]

\* a * n for an integer-valued n (a count): p.price * p.qty
Times(a, n) ==
  IF IsNaN(a) \/ IsNaN(n) THEN NaN
  ELSE IF a.k = "inf" \/ n.k = "inf"
       THEN (IF Sign(a) * Sign(n) = 0 THEN NaN ELSE Infinity(Sign(a) * Sign(n)))
  ELSE [k |-> "fin", v |-> a.v * (n.v \div TicksPerUnit), exact |-> a.exact /\ n.exact]

\* a * (num/den) for a positive rate that binary64 does not hold exactly;
\* every finite amount of the model is a whole number of eighths (50 ticks),
\* so that the rational product is a whole number of ticks
TimesRate(a, rate) ==
  IF IsNaN(a) THEN NaN
  ELSE IF a.k = "inf" THEN a
  ELSE Approx((a.v \div rate.den) * rate.num)

(***************************************************************************)
(* parseFloat and parseInt (script.js:42-43).                              *)
(***************************************************************************)
SignOf(s) == IF s # <<>> /\ Head(s) = "-" THEN -1 ELSE 1

AfterSign(s) == IF s # <<>> /\ Head(s) \in {"+", "-"} THEN Tail(s) ELSE s

\* the longest prefix that is a decimal literal: optional sign, then
\* Infinity, or digits with an optional fraction; NaN when there is none
parseFloat(text) ==
  LET s == TrimStart(text)
      sign == SignOf(s)
      body == AfterSign(s)
      ip == DigitPrefix(body)
      rest == SubSeq(body, Len(ip) + 1, Len(body))
      fp == IF rest # <<>> /\ Head(rest) = "." THEN DigitPrefix(Tail(rest)) ELSE <<>>
  IN  IF body # <<>> /\ Head(body) = "Infinity" THEN Infinity(sign)
      ELSE IF ip = <<>> /\ fp = <<>> THEN NaN
      ELSE Fin(sign * (DigitsValue(ip) * TicksPerUnit
                        + (DigitsValue(fp) * TicksPerUnit) \div Pow10(Len(fp))))

\* parseInt(text, 10): optional sign and the longest run of digits
parseInt(text) ==
  LET s == TrimStart(text)
      sign == SignOf(s)
      ip == DigitPrefix(AfterSign(s))
  IN  IF ip = <<>> THEN NaN ELSE Whole(sign * DigitsValue(ip))

(***************************************************************************)
(* formatter (script.js:12-16): en-US currency LKR, two fraction digits.   *)
(* A formatted amount is [code, k, cents]: the currency code shown, and     *)
(* the amount rounded to hundredths.                                       *)
(***************************************************************************)
TicksPerCent == TicksPerUnit \div 100

Money(code, k, cents) == [code |-> code, k |-> k, cents |-> cents]

\* the hundredths a magnitude of t ticks can be shown as: the nearest, and
\* on a tie the larger (half-expand) when the value is the rational exactly,
\* either neighbour when it is not
CentsOutcomes(t, exact) ==
  LET q == t \div TicksPerCent
      r == t % TicksPerCent
  IN  IF 2 * r < TicksPerCent THEN {q}
      ELSE IF 2 * r > TicksPerCent THEN {q + 1}
      ELSE IF exact THEN {q + 1}
      ELSE {q, q + 1}

\* formatter.format(x): every text the call can return
FormatOutcomes(x) ==
  IF x.k = "nan" THEN {Money("LKR", "nan", 0)}
  ELSE IF x.k = "inf" THEN {Money("LKR", "inf", x.v)}
  ELSE IF x.v >= 0 THEN {Money("LKR", "fin", c) : c \in CentsOutcomes(x.v, x.exact)}
  ELSE {Money("LKR", "fin", 0 - c) : c \in CentsOutcomes(0 - x.v, x.exact)}

\* text.replace('LKR', '') (script.js:117)
StripCode(m) == [m EXCEPT !.code = ""]

(***************************************************************************)
(* Program constants.                                                      *)
(***************************************************************************)
\* const VAT_RATE = 0.18, as the fraction 9/50
VAT_RATE == [num |-> 9, den |-> 50]

\* the tenth row counted from 1
PageBreakIndexOneBased == 9 + 1

\* if (index === 9): the 0-based row that carries the page-break class
PageBreakIndex == 9

\* const totalFooterColumns = 4
totalFooterColumns == 4

Item(id, name, price, qty) == [id |-> id, name |-> name, price |-> price, qty |-> qty]

\* let products = [ ... ] : the three literal items, ids Date.now() + 1..3
LiteralProducts(t) ==
  << Item(t + 1, <<"ERP System License (1 Year)">>, Whole(85000), Whole(1)),
     Item(t + 2, <<"On-site Implementation Service">>, Whole(50000), Whole(1)),
     Item(t + 3, <<"Custom Reporting Module Development">>, Whole(120000), Whole(1)) >>

\* for (let i = 4; i <= 12; i++) products.push({...}) with Date.now() = t
RECURSIVE DemoProducts(_, _)
DemoProducts(t, i) ==
  IF i > 12 THEN <<>>
  ELSE << Item(t + i,
               <<"Software License Maintenance Package", " ">> \o IntToText(i),
               Whole(15000), Whole((i % 3) + 1)) >> \o DemoProducts(t, i + 1)

(***************************************************************************)
(* calculateTotals (script.js:77-85).                                      *)
(***************************************************************************)
\* the reduce with the quantity left out: acc + p.price
RECURSIVE SubtotalOfPrices(_)
SubtotalOfPrices(ps) ==
  IF ps = <<>> THEN Whole(0)
  ELSE Plus(SubtotalOfPrices(SubSeq(ps, 1, Len(ps) - 1)), ps[Len(ps)].price)

\* products.reduce((acc, p) => acc + (p.price * p.qty), 0)
RECURSIVE Subtotal(_)
Subtotal(ps) ==
  IF ps = <<>> THEN Whole(0)
  ELSE Plus(Subtotal(SubSeq(ps, 1, Len(ps) - 1)),
            Times(ps[Len(ps)].price, ps[Len(ps)].qty))

VatOf(subtotal) == TimesRate(subtotal, VAT_RATE)

GrandOf(subtotal) == Plus(subtotal, VatOf(subtotal))

calculateTotals(ps) ==
  /\ subTotal' \in FormatOutcomes(Subtotal(ps))
  /\ vatAmount' \in FormatOutcomes(VatOf(Subtotal(ps)))
  /\ grandTotal' \in FormatOutcomes(GrandOf(Subtotal(ps)))

(***************************************************************************)
(* renderProducts (script.js:90-126).                                      *)
(***************************************************************************)
qtyClass == "hidden lg:table-cell"

priceClass(mode) == IF mode THEN "hidden" ELSE "hidden lg:table-cell"

\* the row inserted for p at 0-based position index
Row(p, index, mode, priceText, totalText) ==
  [ index |-> IntToText(index + 1),
    name |-> p.name,
    qty |-> p.qty,
    qtyClass |-> qtyClass,
    price |-> StripCode(priceText),
    priceClass |-> priceClass(mode),
    total |-> totalText,
    deleteId |-> p.id,
    pageBreak |-> (index = PageBreakIndex) ]

\* every table body products.forEach can build
RECURSIVE TableOutcomes(_, _)
TableOutcomes(ps, mode) ==
  IF ps = <<>> THEN {<<>>}
  ELSE LET n == Len(ps)
           p == ps[n]
       IN  { Append(t, Row(p, n - 1, mode, pt, tt)) :
               t \in TableOutcomes(SubSeq(ps, 1, n - 1), mode),
               pt \in FormatOutcomes(p.price),
               tt \in FormatOutcomes(Times(p.price, p.qty)) }

\* the render without tbody.innerHTML = '': the new rows follow the old ones
renderProductsAppending(ps, mode) ==
  /\ tableRows' \in {tableRows \o t : t \in TableOutcomes(ps, mode)}
  /\ calculateTotals(ps)

renderProducts(ps, mode) ==
  /\ tableRows' \in TableOutcomes(ps, mode)
  /\ calculateTotals(ps)

(***************************************************************************)
(* What the user enters.                                                   *)
(***************************************************************************)
\* contents of productName, unitPrice and quantity when Add is clicked
FormInputs ==
  { << <<>>, <<"1", "0">>, <<"1">> >>,
    << <<" ">>, <<"1", "0">>, <<"1">> >>,
    << <<"Audit">>, <<"0">>, <<"1">> >>,
    << <<"Audit">>, <<"-", "5">>, <<"1">> >>,
    << <<"Audit">>, <<"abc">>, <<"1">> >>,
    << <<"Audit">>, <<"1", "0">>, <<"0">> >>,
    << <<"Audit">>, <<"1", "0">>, <<"abc">> >>,
    << <<"Audit">>, <<"1", "0">>, <<"1">> >>,
    << <<" ", "Cable", " ">>, <<"0", ".", "1", "2", "5">>, <<"2">> >>,
    << <<"Audit">>, <<"Infinity">>, <<"1">> >> }

\* an id no item ever carries
AbsentId == 0 - 1

\* the ids deleteProduct is called with: the Remove buttons of the rows with
\* these ids (the items with an id a clock reading can repeat, and two of the
\* demonstration items), and an id that is not in the store
DeleteIds == {0, 1, 10, 12, AbsentId}

(***************************************************************************)
(* The state once the script has run (script.js:4-9, 184-193) and the      *)
(* DOMContentLoaded listener (script.js:18-22) has rendered it.            *)
(***************************************************************************)
\* the page's own markup, which the script never reads
InitialMarkup == "<markup>"

\* the price header's class list and the footer span in the page's markup
InitialHeaderPrice == {}
InitialFooterColspan == 4

\* error: console.error was called; cleared: the form fields were emptied;
\* printed: the view mode at window.print(); toggles: calls of toggleSummaryView
\* the clock readings the demonstration loop can see (the literal sees 0)
LoadSkews == {0, 1}

Call(op, error, cleared, printed, toggles) ==
  [op |-> op, error |-> error, cleared |-> cleared, printed |-> printed, toggles |-> toggles]

Init ==
  \E d \in LoadSkews :
    /\ products = LiteralProducts(0) \o DemoProducts(d, 4)
    /\ isSummaryMode = FALSE
    /\ now = d
    /\ tableRows \in TableOutcomes(products, isSummaryMode)
    /\ subTotal \in FormatOutcomes(Subtotal(products))
    /\ vatAmount \in FormatOutcomes(VatOf(Subtotal(products)))
    /\ grandTotal \in FormatOutcomes(GrandOf(Subtotal(products)))
    /\ headerPrice = InitialHeaderPrice
    /\ footerColspan = InitialFooterColspan
    /\ summaryButton = InitialMarkup
    /\ adds = 0
    /\ lastCall = Call("load", FALSE, FALSE, "none", 0)

(***************************************************************************)
(* The handlers.                                                           *)
(***************************************************************************)
\* the validation with the quantity's sign left unchecked
RejectedIgnoringQuantitySign(name, price, qty) ==
  name = <<>> \/ IsNaN(price) \/ LeqZero(price) \/ IsNaN(qty)

\* if (!name || isNaN(price) || price <= 0 || isNaN(qty) || qty <= 0)
Rejected(name, price, qty) ==
  name = <<>> \/ IsNaN(price) \/ LeqZero(price) \/ IsNaN(qty) \/ LeqZero(qty)

\* addProduct (script.js:40-63), called with the three fields holding what
\* the user has just typed: nameText, priceText and qtyText
addProduct(nameText, priceText, qtyText) ==
  LET name == Trim(nameText)
      price == parseFloat(priceText)
      qty == parseInt(qtyText)
  IN  IF Rejected(name, price, qty)
      THEN /\ lastCall' = Call("addProduct", TRUE, FALSE, "none", 0)
           /\ UNCHANGED <<products, isSummaryMode, now, tableRows, subTotal,
                          vatAmount, grandTotal, headerPrice, footerColspan,
                          summaryButton, adds>>
      ELSE /\ adds < MaxAdds
           /\ products' = Append(products, Item(now, name, price, qty))
           /\ renderProducts(products', isSummaryMode)
           /\ adds' = adds + 1
           /\ lastCall' = Call("addProduct", FALSE, TRUE, "none", 0)
           /\ UNCHANGED <<isSummaryMode, now, headerPrice, footerColspan, summaryButton>>

\* products.filter(p => p.id !== id)
RECURSIVE FilterOut(_, _)
FilterOut(ps, id) ==
  IF ps = <<>> THEN <<>>
  ELSE IF Head(ps).id # id THEN <<Head(ps)>> \o FilterOut(Tail(ps), id)
  ELSE FilterOut(Tail(ps), id)

\* deleteProduct (script.js:69-72)
deleteProduct(id) ==
  /\ products' = FilterOut(products, id)
  /\ renderProducts(products', isSummaryMode)
  /\ lastCall' = Call("deleteProduct", FALSE, FALSE, "none", 0)
  /\ UNCHANGED <<isSummaryMode, now,
                 headerPrice, footerColspan, summaryButton, adds>>

\* the toggle without its closing renderProducts()
ToggleEffectWithoutRender ==
  /\ isSummaryMode' = ~isSummaryMode
  /\ summaryButton' = IF isSummaryMode'
                      THEN "Exit Summary View (Show Details)"
                      ELSE "Toggle Summary View (Show Totals Only)"
  /\ IF isSummaryMode'
     THEN /\ headerPrice' = headerPrice \cup {"hidden"}
          /\ footerColspan' = totalFooterColumns - 1
     ELSE /\ headerPrice' = headerPrice \ {"hidden"}
          /\ footerColspan' = totalFooterColumns
  /\ UNCHANGED <<products, now, adds, tableRows, subTotal, vatAmount, grandTotal>>

\* toggleSummaryView (script.js:131-171), but for the record of the call
ToggleEffect ==
  /\ isSummaryMode' = ~isSummaryMode
  /\ summaryButton' = IF isSummaryMode'
                      THEN "Exit Summary View (Show Details)"
                      ELSE "Toggle Summary View (Show Totals Only)"
  /\ IF isSummaryMode'
     THEN /\ headerPrice' = headerPrice \cup {"hidden"}
          /\ footerColspan' = totalFooterColumns - 1
     ELSE /\ headerPrice' = headerPrice \ {"hidden"}
          /\ footerColspan' = totalFooterColumns
  /\ renderProducts(products, isSummaryMode')
  /\ UNCHANGED <<products, now, adds>>

toggleSummaryView ==
  /\ ToggleEffect
  /\ lastCall' = Call("toggleSummaryView", FALSE, FALSE, "none", 1)

\* the print without the switch back to the detailed view
printQuotationAsShown ==
  /\ UNCHANGED <<products, isSummaryMode, now, tableRows, subTotal, vatAmount,
                 grandTotal, headerPrice, footerColspan, summaryButton, adds>>
  /\ lastCall' = Call("printQuotation", FALSE, FALSE,
                      IF isSummaryMode THEN "Summary" ELSE "Detailed", 0)

\* printQuotation (script.js:176-182); printed is the view mode in force when
\* window.print() is called
printQuotation ==
  /\ IF isSummaryMode
     THEN ToggleEffect
     ELSE UNCHANGED <<products, isSummaryMode, now, tableRows, subTotal, vatAmount, grandTotal,
                      headerPrice, footerColspan, summaryButton, adds>>
  /\ lastCall' = Call("printQuotation", FALSE, FALSE,
                      IF isSummaryMode' THEN "Summary" ELSE "Detailed",
                      IF isSummaryMode THEN 1 ELSE 0)

\* a millisecond passes
Tick ==
  /\ now < MaxClock
  /\ now' = now + 1
  /\ lastCall' = Call("tick", FALSE, FALSE, "none", 0)
  /\ UNCHANGED <<products, isSummaryMode,
                 tableRows, subTotal, vatAmount, grandTotal, headerPrice,
                 footerColspan, summaryButton, adds>>

Next ==
  \/ \E f \in FormInputs : addProduct(f[1], f[2], f[3])
  \/ \E id \in DeleteIds : deleteProduct(id)
  \/ toggleSummaryView
  \/ printQuotation
  \/ Tick

Spec == Init /\ [][Next]_vars

(***************************************************************************)
(* Properties.                                                             *)
(***************************************************************************)
Ids(ps) == {ps[i].id : i \in 1..Len(ps)}

\* ps without its element at position i
RemoveAt(ps, i) == SubSeq(ps, 1, i - 1) \o SubSeq(ps, i + 1, Len(ps))

Abs(n) == IF n < 0 THEN 0 - n ELSE n

\* C1: no two items of the store share an id (so that an item added in the
\* clock tick of another creation would still get an id of its own).
C1_IdsUnique ==
  \A i, j \in 1..Len(products) : i # j => products[i].id # products[j].id

\* what the claims call a blank name, a non-numeric or non-positive price,
\* a non-numeric or non-positive quantity
BlankName(nameText) == \A i \in 1..Len(nameText) : nameText[i] = " "
BadPrice(priceText) == ~ GtZero(parseFloat(priceText))
BadQuantity(qtyText) == ~ GtZero(parseInt(qtyText))

\* C2: a call of addProduct with a blank name, or a price that is not a
\* number above 0, or a quantity that is not a number above 0, reports an
\* error and leaves the item list as it was.
C2_RejectedAddChangesNothing ==
  [][ \A f \in FormInputs :
        ((BlankName(f[1]) \/ BadPrice(f[2]) \/ BadQuantity(f[3]))
           /\ addProduct(f[1], f[2], f[3]))
        => (products' = products /\ lastCall'.error) ]_vars

C2_Witness ==
  /\ lastCall.op = "addProduct"
  /\ lastCall.error
  /\ adds > 0
  /\ Len(products) < 12

\* C3: every item of the store has a non-empty name, a finite unit price
\* above 0 and an integer quantity above 0.
C3_StoreValid ==
  \A i \in 1..Len(products) :
    /\ products[i].name # <<>>
    /\ IsFiniteNum(products[i].price) /\ GtZero(products[i].price)
    /\ IsIntegerNum(products[i].qty) /\ GtZero(products[i].qty)

\* C4: deleteProduct(id) removes exactly the one item with that id, the
\* others keeping their order, and changes nothing when no item has the id.
C4_DeleteRemovesExactlyOne ==
  [][ \A id \in DeleteIds :
        deleteProduct(id)
        => IF id \in Ids(products)
           THEN \E i \in 1..Len(products) :
                  products[i].id = id /\ products' = RemoveAt(products, i)
           ELSE products' = products ]_vars

\* C5: a call of addProduct with a name that is not blank, a finite price
\* above 0 and an integer quantity above 0 appends one item carrying the
\* trimmed name, the price and the quantity, and keeps all earlier items;
\* " Cable ", "0.125", "2" appends (Cable, 1/8, 2).
C5_ValidAddAppends ==
  [][ \A f \in FormInputs :
        (/\ ~ BlankName(f[1])
         /\ IsFiniteNum(parseFloat(f[2])) /\ ~ BadPrice(f[2])
         /\ IsIntegerNum(parseInt(f[3])) /\ ~ BadQuantity(f[3])
         /\ addProduct(f[1], f[2], f[3]))
        => /\ Len(products') = Len(products) + 1
           /\ SubSeq(products', 1, Len(products)) = products
           /\ LET new == products'[Len(products')]
              IN  /\ new.name # <<>>
                  /\ new.name[1] # " " /\ new.name[Len(new.name)] # " "
                  /\ \E a, b \in 0..Len(f[1]) :
                       /\ new.name = SubSeq(f[1], a + 1, Len(f[1]) - b)
                       /\ \A i \in (1..a) \cup ((Len(f[1]) - b + 1)..Len(f[1])) :
                            f[1][i] = " "
                  /\ new.price = parseFloat(f[2])
                  /\ new.qty = parseInt(f[3])
                  /\ (f[1] = <<" ", "Cable", " ">>
                        => /\ new.name = <<"Cable">>
                           /\ new.price.k = "fin" /\ 8 * new.price.v = TicksPerUnit
                           /\ new.qty.k = "fin" /\ new.qty.v = 2 * TicksPerUnit) ]_vars

C5_Witness ==
  /\ lastCall.op = "addProduct"
  /\ ~ lastCall.error
  /\ lastCall.cleared
  /\ Len(products) = 11
  /\ products[Len(products)].name = <<"Cable">>

(***************************************************************************)
(* Totals.                                                                 *)
(***************************************************************************)
AllFinite(ps) == \A i \in 1..Len(ps) : ps[i].price.k = "fin" /\ ps[i].qty.k = "fin"

\* the sum of price * quantity over the items, in eighths of a unit, taken
\* from the last item to the first
RECURSIVE SumEighths(_)
SumEighths(ps) ==
  IF ps = <<>> THEN 0
  ELSE ((Head(ps).price.v * 8) \div TicksPerUnit) * (Head(ps).qty.v \div TicksPerUnit)
       + SumEighths(Tail(ps))

\* m shows, to two decimals, an amount of t ticks: off by at most half a cent
ShowsRounded(m, t) ==
  m.code = "LKR" /\ m.k = "fin" /\ 2 * Abs(m.cents * (TicksPerUnit \div 100) - t) <= TicksPerUnit \div 100

\* m shows exactly an amount of t ticks
ShowsExactly(m, t) ==
  m.code = "LKR" /\ m.k = "fin" /\ m.cents * (TicksPerUnit \div 100) = t

ShowsInfinity(m) == m.code = "LKR" /\ m.k = "inf" /\ m.cents > 0

C7_PrintsDetailed ==
  [][ lastCall'.op = "printQuotation"
      => /\ lastCall'.printed = "Detailed"
         /\ isSummaryMode' = FALSE
         /\ lastCall'.toggles = (IF isSummaryMode THEN 1 ELSE 0)
         /\ (isSummaryMode => footerColspan' = 4 /\ "hidden" \notin headerPrice')
         /\ (~ isSummaryMode => UNCHANGED <<footerColspan, headerPrice, tableRows>>) ]_vars

C7_Witness ==
  /\ lastCall.op = "printQuotation"
  /\ lastCall.toggles = 1
  /\ lastCall.printed = "Detailed"
  /\ adds > 0

\* the unit-price column as the view mode requires it
PriceColumnHidden ==
  /\ "hidden" \in headerPrice
  /\ \A k \in 1..Len(tableRows) : tableRows[k].priceClass = "hidden"
  /\ footerColspan = 3

PriceColumnShown ==
  /\ "hidden" \notin headerPrice
  /\ \A k \in 1..Len(tableRows) : tableRows[k].priceClass = "hidden lg:table-cell"
  /\ footerColspan = 4

\* C8: toggleSummaryView always flips the mode; in Summary mode the price
\* header and the price cell of every row are hidden and the footer label
\* spans 3 columns, in Detailed mode they are not hidden and it spans 4 (so
\* that two toggles in a row restore the header, the cells and the span).
C8_ViewConsistent ==
  /\ [](IF isSummaryMode THEN PriceColumnHidden ELSE PriceColumnShown)
  /\ [][ lastCall'.op = "toggleSummaryView" => isSummaryMode' = ~ isSummaryMode ]_vars

C8_Witness ==
  /\ lastCall.op = "toggleSummaryView"
  /\ isSummaryMode
  /\ adds > 0
  /\ Len(products) < 12

(***************************************************************************)
(* Rows.                                                                   *)
(***************************************************************************)
\* C9: the table has one row per item of the store, in the store's order;
\* row k shows index k and the name, quantity, line total (to two decimals)
\* and delete id of item k.
C9_RowsFollowStore ==
  /\ Len(tableRows) = Len(products)
  /\ \A k \in 1..Len(products) :
       /\ tableRows[k].index # <<>>
       /\ \A i \in 1..Len(tableRows[k].index) : IsDigit(tableRows[k].index[i])
       /\ DigitsValue(tableRows[k].index) = k
       /\ tableRows[k].name = products[k].name
       /\ tableRows[k].qty = products[k].qty
       /\ tableRows[k].deleteId = products[k].id
       /\ IF products[k].price.k = "fin"
          THEN ShowsRounded(tableRows[k].total,
                            products[k].price.v * (products[k].qty.v \div TicksPerUnit))
          ELSE ShowsInfinity(tableRows[k].total)

C9_Witness ==
  /\ lastCall.op = "deleteProduct"
  /\ adds > 0
  /\ Len(tableRows) = 10
  /\ tableRows[10].name = <<"Cable">>
  /\ tableRows[1].name = <<"On-site Implementation Service">>

\* C10: the row at 0-based index 9 carries the page-break class when there
\* are at least 10 rows, and no other row ever does.
C10_PageBreakOnTenthRow ==
  /\ \A k \in 1..Len(tableRows) : tableRows[k].pageBreak <=> (k = 10)
  /\ Len(tableRows) = Len(products)
  /\ (lastCall.op = "load" => Len(tableRows) = 12 /\ tableRows[10].pageBreak)

C10_Witness ==
  /\ lastCall.op = "addProduct"
  /\ ~ lastCall.error
  /\ Len(products) = 10
  /\ tableRows[10].pageBreak
  /\ tableRows[10].name # <<"Software License Maintenance Package", " ", "1", "0">>

====
